---- MODULE Spec2Model ----
(***************************************************************************)
(* A model of ft.dk_video.py: a command-line script that fetches an M3U8   *)
(* playlist, downloads the segments of a time window into segments/,       *)
(* writes segments.txt, runs ffmpeg on it and removes the temporary files. *)
(*                                                                         *)
(* Text (playlist lines, URLs, time strings, paths) is a sequence of       *)
(* tokens, each token a string; the string operations of the script        *)
(* (startswith, split, strip, float, os.path.join, os.path.abspath) are    *)
(* operators on such sequences.                                            *)
(***************************************************************************)
EXTENDS Integers, Sequences, FiniteSets, TLC

VARIABLES
    pc,             \* the statement of the script that runs next
    exitCode,       \* -1 while the process runs, then its exit status
    error,          \* the exception or fatal error that ended the run
    args,           \* argparse result: start, end, output_file
    remote,         \* the playlist text the server holds
    m3u8_content,   \* download_video: m3u8_content
    segment_urls,   \* download_video: segment_urls (list of dicts)
    idx,            \* download_segments: position of the for loop
    current_time,   \* download_segments: current_time
    start_time,     \* download_segments: start_time, in seconds
    end_time,       \* download_segments: end_time, in seconds
    segment_files,  \* download_segments: segment_files
    plan,           \* history: positions of the descriptors appended to segment_files
    files,          \* the file system: path -> content
    dirs,           \* the file system: directories
    muxed,          \* history: ffmpeg returned, and what it did
    log             \* history: the external operations, in order

vars == <<pc, exitCode, error, args, remote, m3u8_content, segment_urls, idx,
          current_time, start_time, end_time, segment_files, plan, files, dirs,
          muxed, log>>

\* ------------------------------------------------------------- bounds
MaxSegs == 3
MaxLines == 3

\* ------------------------------------------------------------- text
DigitVal ==
    ("0" :> 0) @@ ("1" :> 1) @@ ("2" :> 2) @@ ("3" :> 3) @@ ("4" :> 4) @@
    ("5" :> 5) @@ ("6" :> 6) @@ ("7" :> 7) @@ ("8" :> 8) @@ ("9" :> 9)

DigitTok == <<"0", "1", "2", "3", "4", "5", "6", "7", "8", "9">>

\* the decimal text of a natural number below 100
Digits(n) == IF n < 10 THEN <<DigitTok[n + 1]>>
             ELSE <<DigitTok[(n \div 10) + 1], DigitTok[(n % 10) + 1]>>

\* float(s) succeeds
FloatOk(s) == Len(s) > 0 /\ \A i \in 1..Len(s) : s[i] \in DOMAIN DigitVal

RECURSIVE FloatVal(_)
\* float(s), for a text float() accepts
FloatVal(s) == IF s = <<>> THEN 0
               ELSE 10 * FloatVal(SubSeq(s, 1, Len(s) - 1)) + DigitVal[s[Len(s)]]

StartsWith(s, prefix) ==
    Len(s) >= Len(prefix) /\ SubSeq(s, 1, Len(prefix)) = prefix

RECURSIVE Split(_, _)
\* s.split(sep): the fields of s between the separators
Split(s, sep) ==
    IF \E i \in 1..Len(s) : s[i] = sep
    THEN LET i == CHOOSE k \in 1..Len(s) :
                      s[k] = sep /\ \A j \in 1..(k - 1) : s[j] # sep
         IN  <<SubSeq(s, 1, i - 1)>> \o Split(SubSeq(s, i + 1, Len(s)), sep)
    ELSE <<s>>

RECURSIVE Strip(_)
\* s.strip()
Strip(s) ==
    IF s = <<>> THEN s
    ELSE IF s[1] = " " THEN Strip(Tail(s))
    ELSE IF s[Len(s)] = " " THEN Strip(SubSeq(s, 1, Len(s) - 1))
    ELSE s

Last(s) == s[Len(s)]

RECURSIVE SumDurations(_)
SumDurations(segs) ==
    IF segs = <<>> THEN 0 ELSE segs[1].duration + SumDurations(Tail(segs))

SeqsUpTo(S, n) == UNION {[1..k -> S] : k \in 0..n}

\* ------------------------------------------------------------- parse_m3u8_file
\* current_segment = {}: a dict with neither key set
EmptySegment == [hasDuration |-> FALSE, duration |-> 0, url |-> <<>>]

ExtinfPrefix == <<"#", "EXTINF", ":">>

HashPrefix == <<"#">>

\* line.split(':')[1].split(',')[0]
DurationText(line) == Split(Split(line, ":")[2], ",")[1]

RECURSIVE ParseLines(_, _, _)
\* the for loop of parse_m3u8_file over the lines left, with segment_urls and
\* current_segment as they stand; raised: float() raised ValueError
ParseLines(lines, segs, cur) ==
    IF lines = <<>> THEN [raised |-> FALSE, segment_urls |-> segs]
    ELSE LET line == Head(lines) IN
         IF StartsWith(line, ExtinfPrefix)
         THEN IF FloatOk(DurationText(line))
              THEN ParseLines(Tail(lines), segs,
                              [cur EXCEPT !.hasDuration = TRUE,
                                          !.duration = FloatVal(DurationText(line))])
              ELSE [raised |-> TRUE, segment_urls |-> segs]
         ELSE IF ~StartsWith(line, HashPrefix)
              THEN ParseLines(Tail(lines),
                              Append(segs, [cur EXCEPT !.url = Strip(line)]),
                              EmptySegment)
              ELSE ParseLines(Tail(lines), segs, cur)

parse_m3u8_file(content) == ParseLines(content, <<>>, EmptySegment)

\* ------------------------------------------------------------- times
\* convert_time_to_seconds: h, m, s = map(float, time_str.split(':'))
ConvertOk(time_str) ==
    LET f == Split(time_str, ":")
    IN  Len(f) = 3 /\ \A i \in 1..3 : FloatOk(f[i])

convert_time_to_seconds(time_str) ==
    LET f == Split(time_str, ":")
    IN  FloatVal(f[1]) * 3600 + FloatVal(f[2]) * 60 + FloatVal(f[3])

\* "if start_time:" - None and the empty string are both false
Truthy(arg) == arg.given /\ arg.str # <<>>

\* ------------------------------------------------------------- paths
SegmentsDir == <<"segments">>

ConcatFile == <<"segments.txt">>

Cwd == <<"/", "cwd">>

\* os.path.join(directory, name), name relative
Join(directory, name) == directory \o <<"/">> \o name

\* os.path.join('segments', segment_url.split('/')[-1].split('?')[0])
SegmentName(segment_url) ==
    Join(SegmentsDir, Split(Last(Split(segment_url, "/")), "?")[1])

\* a path without its trailing separator
NormPath(p) == IF p # <<>> /\ Last(p) = "/" THEN SubSeq(p, 1, Len(p) - 1) ELSE p

\* os.path.abspath of a relative path
Abspath(p) == Cwd \o <<"/">> \o NormPath(p)

InDir(p, directory) == StartsWith(p, directory \o <<"/">>)

\* the line with the path as download_segments built it, not made absolute
ConcatLine_relative(segment) == <<"file", " ", "'">> \o segment \o <<"'">>

\* f"file '{os.path.abspath(segment)}'\n"
ConcatLine(segment) == <<"file", " ", "'">> \o Abspath(segment) \o <<"'">>

\* ------------------------------------------------------------- the network
SchemePrefix == <<"http:", "/", "/">>

\* requests.get raises MissingSchema for a URL without a scheme
HasScheme(url) == StartsWith(url, SchemePrefix)

\* what the server sends for a URL
Body(url) == << <<"data-of">> \o url >>

Event(op, k) == [op |-> op, k |-> k]

\* ------------------------------------------------------------- process exit
\* a handler that ends the process with status 0
SysExit_status0(kind) == pc' = "exit" /\ exitCode' = 0 /\ error' = kind

\* sys.exit(1), from a handler that printed the error
SysExit(kind) == pc' = "exit" /\ exitCode' = 1 /\ error' = kind

\* an exception nothing catches: the interpreter prints a traceback and exits 1
Traceback(kind) == pc' = "exit" /\ exitCode' = 1 /\ error' = kind

\* ------------------------------------------------------------- download_video
\* create_segments_directory(): os.makedirs('segments', exist_ok=True)
CreateSegmentsDirectory ==
    /\ pc = "create_segments_directory"
    /\ dirs' = dirs \cup {SegmentsDir}
    /\ log' = Append(log, Event("makedirs", 0))
    /\ pc' = "download_m3u8_file"
    /\ UNCHANGED <<exitCode, error, args, remote, m3u8_content, segment_urls, idx,
                   current_time, start_time, end_time, segment_files, plan, files,
                   muxed>>

\* the except branch of download_m3u8_file
ManifestRequestFailed == SysExit("FetchFailed") /\ UNCHANGED m3u8_content

\* download_m3u8_file(m3u8_url): one request, its text or sys.exit(1)
DownloadM3u8File ==
    /\ pc = "download_m3u8_file"
    /\ log' = Append(log, Event("get_manifest", 0))
    /\ \E ok \in BOOLEAN :
          IF ok
          THEN /\ m3u8_content' = remote
               /\ pc' = "parse_m3u8_file"
               /\ UNCHANGED <<exitCode, error>>
          ELSE ManifestRequestFailed
    /\ UNCHANGED <<args, remote, segment_urls, idx, current_time, start_time,
                   end_time, segment_files, plan, files, dirs, muxed>>

\* segment_urls = parse_m3u8_file(m3u8_content); a ValueError of float() reaches
\* the except clause of __main__, which prints it and calls sys.exit(1)
ParseM3u8File ==
    /\ pc = "parse_m3u8_file"
    /\ log' = Append(log, Event("parse", 0))
    /\ LET r == parse_m3u8_file(m3u8_content) IN
          IF r.raised
          THEN SysExit("ParseValueError") /\ UNCHANGED segment_urls
          ELSE /\ segment_urls' = r.segment_urls
               /\ pc' = "download_segments"
               /\ UNCHANGED <<exitCode, error>>
    /\ UNCHANGED <<args, remote, m3u8_content, idx, current_time, start_time,
                   end_time, segment_files, plan, files, dirs, muxed>>

\* ------------------------------------------------------------- download_segments
\* lines 80-94: total_duration, then start_time and end_time in seconds.
\* raised: KeyError of segment['duration'], ValueError of convert_time_to_seconds
PrepareWindow(segs, a) ==
    IF \E i \in 1..Len(segs) : ~segs[i].hasDuration
    THEN [raised |-> "KeyError", start |-> 0, end |-> 0, ops |-> <<>>]
    ELSE IF Truthy(a.start) /\ ~ConvertOk(a.start.str)
    THEN [raised |-> "InvalidTimeFormat", start |-> 0, end |-> 0,
          ops |-> <<Event("convert_start", 0)>>]
    ELSE IF Truthy(a.end) /\ ~ConvertOk(a.end.str)
    THEN [raised |-> "InvalidTimeFormat", start |-> 0, end |-> 0,
          ops |-> (IF Truthy(a.start) THEN <<Event("convert_start", 0)>> ELSE <<>>)
                  \o <<Event("convert_end", 0)>>]
    ELSE [raised |-> "none",
          start |-> IF Truthy(a.start) THEN convert_time_to_seconds(a.start.str)
                    ELSE 0,
          end |-> IF Truthy(a.end) THEN convert_time_to_seconds(a.end.str)
                  ELSE SumDurations(segs),
          ops |-> (IF Truthy(a.start) THEN <<Event("convert_start", 0)>> ELSE <<>>)
                  \o (IF Truthy(a.end) THEN <<Event("convert_end", 0)>> ELSE <<>>)]

\* except ValueError in __main__: print, sys.exit(1)
TimeFormatRejected == SysExit("InvalidTimeFormat")

DownloadSegmentsEnter ==
    /\ pc = "download_segments"
    /\ LET w == PrepareWindow(segment_urls, args) IN
          /\ log' = log \o w.ops
          /\ IF w.raised = "KeyError"
             THEN Traceback("KeyError") /\ UNCHANGED <<start_time, end_time>>
             ELSE IF w.raised = "InvalidTimeFormat"
             THEN TimeFormatRejected /\ UNCHANGED <<start_time, end_time>>
             ELSE /\ start_time' = w.start
                  /\ end_time' = w.end
                  /\ pc' = "for_segment"
                  /\ UNCHANGED <<exitCode, error>>
    /\ UNCHANGED <<args, remote, m3u8_content, segment_urls, idx, current_time,
                   segment_files, plan, files, dirs, muxed>>

\* the skip rule with <= : a segment that ends exactly at start is dropped
SkipSegment_le(now, segment_duration, start) == now + segment_duration <= start

\* line 102: the segment ends before the window starts
SkipSegment(now, segment_duration, start) == now + segment_duration < start

\* the stop rule with >= : a segment that begins exactly at end is dropped
PastEnd_ge(now, end) == now >= end

\* line 105: the walk is past the end of the window
PastEnd(now, end) == now > end

\* open(segment_name, 'wb') raises IsADirectoryError
OpenFails(p) == NormPath(p) \in dirs

\* a handler that prints the error and goes on with the next segment
SegmentRequestFailed_continue ==
    /\ error' = "SegmentFetchFailed"
    /\ idx' = idx + 1
    /\ UNCHANGED <<pc, exitCode, current_time, files>>

\* the except branch of the segment request: print, sys.exit(1)
SegmentRequestFailed ==
    /\ SysExit("SegmentFetchFailed")
    /\ UNCHANGED <<idx, current_time, files>>

\* lines 108-123 for the segment at idx: append its name, request it, write it
FetchSegment(segment, segment_name) ==
    /\ segment_files' = Append(segment_files, segment_name)
    /\ plan' = Append(plan, idx)
    /\ \E ok \in BOOLEAN :
          IF ~(ok /\ HasScheme(segment.url))
          THEN /\ log' = Append(log, Event("get_segment", idx))
               /\ SegmentRequestFailed
          ELSE IF OpenFails(segment_name)
          THEN /\ log' = Append(log, Event("get_segment", idx))
               /\ Traceback("IsADirectoryError")
               /\ UNCHANGED <<idx, current_time, files>>
          ELSE /\ log' = log \o <<Event("get_segment", idx), Event("write_segment", idx)>>
               /\ files' = (segment_name :> Body(segment.url)) @@ files
               /\ current_time' = current_time + segment.duration
               /\ idx' = idx + 1
               /\ UNCHANGED <<pc, exitCode, error>>

\* one pass of "for segment in segment_urls" (lines 97-123); past the last
\* segment, or at the break, download_segments returns segment_files
ForSegment ==
    /\ pc = "for_segment"
    /\ IF idx > Len(segment_urls)
       THEN /\ pc' = "create_concat_file"
            /\ UNCHANGED <<exitCode, error, idx, current_time, segment_files, plan,
                           files, log>>
       ELSE LET segment == segment_urls[idx]
                segment_name == SegmentName(segment.url)
            IN  IF SkipSegment(current_time, segment.duration, start_time)
                THEN /\ current_time' = current_time + segment.duration
                     /\ idx' = idx + 1
                     /\ UNCHANGED <<pc, exitCode, error, segment_files, plan, files,
                                    log>>
                ELSE IF PastEnd(current_time, end_time)
                THEN /\ pc' = "create_concat_file"
                     /\ UNCHANGED <<exitCode, error, idx, current_time,
                                    segment_files, plan, files, log>>
                ELSE FetchSegment(segment, segment_name)
    /\ UNCHANGED <<args, remote, m3u8_content, segment_urls, start_time, end_time,
                   dirs, muxed>>

\* ------------------------------------------------------------- create_concat_file
\* create_concat_file(segment_files): one line per entry of segment_files
CreateConcatFile ==
    /\ pc = "create_concat_file"
    /\ files' = (ConcatFile :>
                   [i \in 1..Len(segment_files) |-> ConcatLine(segment_files[i])])
                @@ files
    /\ log' = Append(log, Event("create_concat", 0))
    /\ pc' = "combine_segments"
    /\ UNCHANGED <<exitCode, error, args, remote, m3u8_content, segment_urls, idx,
                   current_time, start_time, end_time, segment_files, plan, dirs,
                   muxed>>

\* ------------------------------------------------------------- combine_segments
\* the path a line of the concat file names
ListedPath(line) == Split(line, "'")[2]

ExistsAbs(abs) == \E p \in DOMAIN files : Abspath(p) = abs

FileAt(abs) == files[CHOOSE p \in DOMAIN files : Abspath(p) = abs]

RECURSIVE ReadListed(_)
\* what ffmpeg reads: the contents of the listed files, in order
ReadListed(lines) ==
    IF lines = <<>> THEN <<>>
    ELSE FileAt(ListedPath(lines[1])) \o ReadListed(Tail(lines))

\* ffmpeg produces an output only from a list that names files it can read
CanMux ==
    /\ ConcatFile \in DOMAIN files
    /\ Len(files[ConcatFile]) > 0
    /\ \A i \in 1..Len(files[ConcatFile]) : ExistsAbs(ListedPath(files[ConcatFile][i]))

\* how call(['ffmpeg', ...]) ends: the binary is missing, or it ran and
\* returned a status, which the script does not read
MuxerOutcomes == {"notfound", "failed"} \cup (IF CanMux THEN {"ok"} ELSE {})

\* except FileNotFoundError: print, sys.exit(1)
MuxerMissing == SysExit("MuxerNotFound") /\ UNCHANGED <<files, muxed>>

\* a script that reads the status of ffmpeg and exits on a failure
MuxerReturned_checked(outcome) ==
    /\ muxed' = outcome
    /\ files' = IF outcome = "ok"
                THEN (args.output :> << <<"video">> >>) @@ files
                ELSE files
    /\ IF outcome = "ok"
       THEN pc' = "cleanup_files" /\ UNCHANGED <<exitCode, error>>
       ELSE pc' = "exit" /\ exitCode' = 1 /\ error' = "MuxerFailed"

\* call() returned with the given outcome: the script goes on whatever it is
MuxerReturned(outcome) ==
    /\ muxed' = outcome
    /\ files' = IF outcome = "ok"
                THEN (args.output :> (<< <<"video">> >> \o ReadListed(files[ConcatFile])))
                     @@ files
                ELSE files
    /\ pc' = "cleanup_files"
    /\ UNCHANGED <<exitCode, error>>

CombineSegments ==
    /\ pc = "combine_segments"
    /\ log' = Append(log, Event("ffmpeg", 0))
    /\ \E outcome \in MuxerOutcomes :
          IF outcome = "notfound" THEN MuxerMissing ELSE MuxerReturned(outcome)
    /\ UNCHANGED <<args, remote, m3u8_content, segment_urls, idx, current_time,
                   start_time, end_time, segment_files, plan, dirs>>

\* ------------------------------------------------------------- cleanup_files
Restrict(f, S) == [p \in S |-> f[p]]

\* shutil.rmtree('segments'): the directory and everything under it
AfterRmtree(fs) == Restrict(fs, {p \in DOMAIN fs : ~InDir(p, SegmentsDir)})

\* os.remove(concat_file)
AfterRemove(fs, path) == Restrict(fs, DOMAIN fs \ {path})

\* cleanup_files, the final print, and the end of the script with status 0
CleanupFiles ==
    /\ pc = "cleanup_files"
    /\ IF SegmentsDir \notin dirs
       THEN /\ Traceback("FileNotFoundError")
            /\ log' = Append(log, Event("rmtree", 0))
            /\ UNCHANGED <<files, dirs>>
       ELSE IF ConcatFile \notin DOMAIN AfterRmtree(files)
       THEN /\ Traceback("FileNotFoundError")
            /\ log' = log \o <<Event("rmtree", 0), Event("remove", 0)>>
            /\ files' = AfterRmtree(files)
            /\ dirs' = dirs \ {SegmentsDir}
       ELSE /\ files' = AfterRemove(AfterRmtree(files), ConcatFile)
            /\ dirs' = dirs \ {SegmentsDir}
            /\ log' = log \o <<Event("rmtree", 0), Event("remove", 0),
                               Event("print_saved", 0)>>
            /\ pc' = "done"
            /\ exitCode' = 0
            /\ UNCHANGED error
    /\ UNCHANGED <<args, remote, m3u8_content, segment_urls, idx, current_time,
                   start_time, end_time, segment_files, plan, muxed>>

Next ==
    \/ CreateSegmentsDirectory
    \/ DownloadM3u8File
    \/ ParseM3u8File
    \/ DownloadSegmentsEnter
    \/ ForSegment
    \/ CreateConcatFile
    \/ CombineSegments
    \/ CleanupFiles

\* ------------------------------------------------------------- inputs
NoArg == [given |-> FALSE, str |-> <<>>]

Arg(s) == [given |-> TRUE, str |-> s]

\* "0:0:<sec>"
TimeStr(sec) == <<"0", ":", "0", ":">> \o Digits(sec)

ExtinfLine(d) == <<"#", "EXTINF", ":">> \o Digits(d) \o <<",">>

CommentLine == <<"#", "EXT-X-ENDLIST">>

UrlPrefix == <<"http:", "/", "/", "host", "/">>

\* http://host/a/s<i>.ts
IndexUrl(i) == UrlPrefix \o <<"a", "/", "s">> \o Digits(i) \o <<".ts">>

\* http://host/b/s1.ts?t=1 : the last path component of IndexUrl(1), with a query
QueryUrl == UrlPrefix \o <<"b", "/", "s", "1", ".ts", "?", "t=1">>

\* http://host/a/ : no last path component
SlashUrl == UrlPrefix \o <<"a", "/">>

\* s9.ts : a relative reference
RelativeUrl == <<"s", "9", ".ts">>

RECURSIVE ManifestLines(_)
\* a playlist: for each entry its #EXTINF line and its URL line
ManifestLines(entries) ==
    IF entries = <<>> THEN <<CommentLine>>
    ELSE <<ExtinfLine(entries[1].d), entries[1].url>> \o ManifestLines(Tail(entries))

DefaultOutput == <<"ft_video.mp4">>

EmptyFs == [p \in {} |-> <<>>]

\* the process at the call of download_video, in an empty working directory
InitWith(texts, starts, ends, outputs) ==
    /\ pc = "create_segments_directory"
    /\ exitCode = -1
    /\ error = "none"
    /\ remote \in texts
    /\ args \in [start : starts, end : ends, output : outputs]
    /\ m3u8_content = <<>>
    /\ segment_urls = <<>>
    /\ idx = 1
    /\ current_time = 0
    /\ start_time = 0
    /\ end_time = 0
    /\ segment_files = <<>>
    /\ plan = <<>>
    /\ files = EmptyFs
    /\ dirs = {}
    /\ muxed = "no"
    /\ log = <<>>

\* the pipeline: playlists of up to MaxSegs two-second segments over URLs that
\* share names or have none, good and bad time strings, two output places
PipelineUrls == {IndexUrl(1), IndexUrl(2), QueryUrl, SlashUrl, RelativeUrl}

PipelineTexts ==
    {ManifestLines(e) : e \in SeqsUpTo([d : {2}, url : PipelineUrls], MaxSegs)}

PipelineStarts == {NoArg, Arg(<<>>), Arg(<<"abc">>), Arg(TimeStr(3))}

PipelineEnds == {NoArg, Arg(<<"0", ":", "5">>), Arg(TimeStr(3))}

PipelineOutputs == {DefaultOutput, Join(SegmentsDir, <<"out.mp4">>)}

Init == InitWith(PipelineTexts, PipelineStarts, PipelineEnds, PipelineOutputs)

Spec == Init /\ [][Next]_vars

\* the parser: every text of up to MaxLines lines over these lines
ParseLineSet ==
    {ExtinfLine(0), ExtinfLine(2), <<"#", "EXTINF", ":", "abc", ",">>, CommentLine,
     <<>>, <<" ">>, IndexUrl(1), RelativeUrl}

InitParse ==
    InitWith(SeqsUpTo(ParseLineSet, MaxLines), {NoArg}, {NoArg}, {DefaultOutput})

SpecParse == InitParse /\ [][Next]_vars

\* the window: playlists of up to MaxSegs segments of these durations, with
\* every start and end up to one second past the longest playlist
Durations == {0, 1, 4}

PlanTexts ==
    {ManifestLines([i \in 1..Len(ds) |-> [d |-> ds[i], url |-> IndexUrl(i)]]) :
        ds \in SeqsUpTo(Durations, MaxSegs)}

MaxOf(S) == CHOOSE x \in S : \A y \in S : y <= x

PlanTimes ==
    {NoArg} \cup {Arg(TimeStr(t)) : t \in 0..(MaxOf(Durations) * MaxSegs + 1)}

InitPlan == InitWith(PlanTexts, PlanTimes, PlanTimes, {DefaultOutput})

SpecPlan == InitPlan /\ [][Next]_vars

\* ------------------------------------------------------------- history
\* the descriptor at position i of the plan
Planned(i) == segment_urls[plan[i]]

IsOp(e, op) == e.op = op

\* the events of one operation, in order
EventsOf(op) == LET Test(e) == IsOp(e, op) IN SelectSeq(log, Test)

\* the positions of the descriptors written to disk, in the order written
DownloadedIdx == [i \in 1..Len(EventsOf("write_segment")) |->
                     EventsOf("write_segment")[i].k]

Occurrences(e) == Cardinality({i \in 1..Len(log) : log[i] = e})

\* download_segments has returned segment_files
DownloadReturned ==
    pc \in {"create_concat_file", "combine_segments", "cleanup_files", "done"}

\* ------------------------------------------------------------- the window walk
\* currentTime at descriptor i: the durations of all descriptors before it
TimeBefore(segs, i) == SumDurations(SubSeq(segs, 1, i - 1))

Skipped(segs, i, start) == TimeBefore(segs, i) + segs[i].duration < start

\* the first descriptor that is not skipped and begins after the end
StopPoint(segs, start, end) ==
    LET S == {i \in 1..Len(segs) : ~Skipped(segs, i, start) /\ TimeBefore(segs, i) > end}
    IN  IF S = {} THEN Len(segs) + 1 ELSE CHOOSE i \in S : \A j \in S : i <= j

WalkPlan(segs, start, end) ==
    LET Kept(i) == i < StopPoint(segs, start, end) /\ ~Skipped(segs, i, start)
    IN  SelectSeq([i \in 1..Len(segs) |-> i], Kept)

\* C1: when download_segments returns, the descriptors it appended are, in
\* original order, exactly those before the stop point that are not skipped,
\* where a descriptor is skipped iff the durations before it plus its own are
\* below start, and the stop point is the first descriptor not skipped whose
\* preceding durations exceed end; segment_files names them in that order.
C1_PlanIsWindowWalk ==
    DownloadReturned =>
        /\ plan = WalkPlan(segment_urls, start_time, end_time)
        /\ segment_files = [i \in 1..Len(plan) |-> SegmentName(Planned(i).url)]

\* the spec's example: durations [4,4,4] with start 5 and end 9; the first
\* segment is skipped, the third begins at 8 <= 9 and is kept
C1_Witness ==
    /\ pc = "create_concat_file"
    /\ Len(segment_urls) = 3
    /\ \A i \in 1..3 : segment_urls[i].duration = 4
    /\ start_time = 5
    /\ end_time = 9
    /\ plan = <<2, 3>>

\* a descriptor reached the stop rule and ended the walk before the last one
C1_StopWitness ==
    /\ pc = "create_concat_file"
    /\ idx <= Len(segment_urls)
    /\ plan # <<>>

RECURSIVE PlanDuration(_)
PlanDuration(p) ==
    IF p = <<>> THEN 0 ELSE segment_urls[p[1]].duration + PlanDuration(Tail(p))

\* the playback interval of descriptor i meets [start, end]
Overlaps(segs, i, start, end) ==
    /\ TimeBefore(segs, i) <= end
    /\ TimeBefore(segs, i) + segs[i].duration >= start

WindowInRange ==
    /\ 0 <= start_time
    /\ start_time <= end_time
    /\ end_time <= SumDurations(segment_urls)

\* C8: for a window with 0 <= start <= end <= total duration, every descriptor
\* whose playback interval meets [start, end] is in the plan, and the plan's
\* summed duration is at most (end - start) plus the durations of its first
\* and of its last descriptor.
C8_SupersetByOneSegmentPerBoundary ==
    (DownloadReturned /\ WindowInRange) =>
        /\ \A i \in 1..Len(segment_urls) :
              Overlaps(segment_urls, i, start_time, end_time)
                  => \E j \in 1..Len(plan) : plan[j] = i
        /\ PlanDuration(plan) <=
              (end_time - start_time)
              + (IF plan = <<>> THEN 0
                 ELSE Planned(1).duration + Planned(Len(plan)).duration)

\* a window inside the playlist that leaves out a segment at each side and
\* whose plan is longer than the window
C8_Witness ==
    /\ pc = "create_concat_file"
    /\ WindowInRange
    /\ plan # <<>>
    /\ plan[1] > 1
    /\ Last(plan) < Len(segment_urls)
    /\ PlanDuration(plan) > end_time - start_time

\* ------------------------------------------------------------- the assembler
\* C2: when create_concat_file has run, the list it was given names the
\* planned descriptors in plan order, which are the descriptors downloaded, in
\* the order downloaded; segments.txt has one line per planned descriptor, and
\* line i names the absolute path of the file written for the i-th one, which
\* is on disk.
C2_ConcatListsPlanInOrder ==
    pc = "combine_segments" =>
        /\ plan = DownloadedIdx
        /\ \A i \in 1..(Len(plan) - 1) : plan[i] < plan[i + 1]
        /\ Len(segment_files) = Len(plan)
        /\ Len(files[ConcatFile]) = Len(plan)
        /\ \A i \in 1..Len(plan) :
              /\ segment_files[i] = SegmentName(Planned(i).url)
              /\ ListedPath(files[ConcatFile][i]) = Abspath(SegmentName(Planned(i).url))
              /\ StartsWith(ListedPath(files[ConcatFile][i]), Cwd)
              /\ ExistsAbs(ListedPath(files[ConcatFile][i]))

\* a concat file of two lines, written after one descriptor was skipped
C2_Witness ==
    /\ pc = "combine_segments"
    /\ Len(files[ConcatFile]) = 2
    /\ plan = <<2, 3>>

\* ------------------------------------------------------------- fatal errors
FatalKinds == {"InvalidTimeFormat", "FetchFailed", "SegmentFetchFailed", "MuxerNotFound"}

\* the operation that a fatal error of this kind stopped
FailedEvents(kind) ==
    IF kind = "FetchFailed" THEN {Event("get_manifest", 0)}
    ELSE IF kind = "SegmentFetchFailed" THEN {Event("get_segment", Last(plan))}
    ELSE IF kind = "MuxerNotFound" THEN {Event("ffmpeg", 0)}
    ELSE {Event("convert_start", 0), Event("convert_end", 0)}

\* C3: once one of the four fatal errors has occurred, the process has exited
\* with a status other than 0, the operation that failed is the last one the
\* run performed, it was performed once, and no step of the script can follow.
C3_FatalErrorsEndTheRun ==
    error \in FatalKinds =>
        /\ pc = "exit"
        /\ exitCode \notin {-1, 0}
        /\ Last(log) \in FailedEvents(error)
        /\ Occurrences(Last(log)) = 1
        /\ ~ENABLED Next

\* ffmpeg was missing after two segments had been downloaded
C3_Witness ==
    /\ error = "MuxerNotFound"
    /\ pc = "exit"
    /\ Len(plan) = 2

C3_WitnessTimeFormat == error = "InvalidTimeFormat" /\ Last(log).op = "convert_end"

C3_WitnessFetch == error = "FetchFailed" /\ pc = "exit"

\* C9: when the request for the k-th planned segment has failed, the process
\* has exited; segments.txt was not written, ffmpeg was not run, nothing was
\* removed, the failed request is the last operation and the k-th request of
\* the run, and the files of the k-1 segments before it are on disk.
C9_SegmentFailureAborts ==
    error = "SegmentFetchFailed" =>
        /\ pc = "exit"
        /\ exitCode = 1
        /\ ~ENABLED Next
        /\ ConcatFile \notin DOMAIN files
        /\ \A i \in 1..Len(log) :
              log[i].op \notin {"create_concat", "ffmpeg", "rmtree", "remove", "print_saved"}
        /\ Last(log) = Event("get_segment", Last(plan))
        /\ Len(EventsOf("get_segment")) = Len(plan)
        /\ Len(EventsOf("write_segment")) = Len(plan) - 1
        /\ SegmentsDir \in dirs
        /\ \A j \in 1..(Len(plan) - 1) :
              /\ SegmentName(Planned(j).url) \in DOMAIN files
              /\ InDir(SegmentName(Planned(j).url), SegmentsDir)

\* the third planned segment failed, after two downloads
C9_Witness ==
    /\ error = "SegmentFetchFailed"
    /\ Len(plan) = 3
    /\ Cardinality(DOMAIN files) = 2

\* ------------------------------------------------------------- cleanup
Cleaned ==
    /\ SegmentsDir \notin dirs
    /\ \A p \in DOMAIN files : ~InDir(p, SegmentsDir)
    /\ ConcatFile \notin DOMAIN files

\* C10: whenever ffmpeg was launched and has returned, with whatever outcome,
\* the script is at cleanup_files, which can run, or has run it: segments/ and
\* segments.txt are removed, the video is reported saved and the exit status
\* is 0. No run that got ffmpeg's status ends any other way.
C10_CleanupAfterAnyMuxerStatus ==
    (muxed # "no") =>
        \/ pc = "cleanup_files" /\ ENABLED CleanupFiles
        \/ /\ pc = "done"
           /\ exitCode = 0
           /\ error = "none"
           /\ Cleaned
           /\ SubSeq(log, Len(log) - 3, Len(log)) =
                 <<Event("ffmpeg", 0), Event("rmtree", 0), Event("remove", 0),
                   Event("print_saved", 0)>>

\* ffmpeg failed on an empty plan and the run still ended with status 0
C10_Witness ==
    /\ muxed = "failed"
    /\ plan = <<>>
    /\ pc = "done"
    /\ exitCode = 0
    /\ Cleaned

\* ------------------------------------------------------------- claims the code breaks
\* C4: parse_m3u8_file fails on no text: after it has run, no error has
\* been raised and the process is still running.
C4_ParseNeverFails ==
    (log # <<>> /\ Last(log).op = "parse") => (error = "none" /\ exitCode = -1)

\* C5: every descriptor parse_m3u8_file emits has a duration and a URL that
\* is not empty.
C5_DescriptorsComplete ==
    \A i \in 1..Len(segment_urls) :
        segment_urls[i].hasDuration /\ segment_urls[i].url # <<>>

\* C6: when download_segments returns, planned descriptors with different
\* URLs have different files, and the file of each planned descriptor holds
\* what the server sent for that descriptor's URL.
C6_OneFilePerSegment ==
    pc = "create_concat_file" =>
        /\ \A i, j \in 1..Len(plan) :
              Planned(i).url # Planned(j).url => segment_files[i] # segment_files[j]
        /\ \A i \in 1..Len(plan) : files[segment_files[i]] = Body(Planned(i).url)

\* C7: after a run that ends with success, segments/ and segments.txt are gone
\* and the output file ffmpeg wrote is on disk.
C7_CleanupKeepsOutput ==
    (pc = "done" /\ exitCode = 0) =>
        /\ Cleaned
        /\ (muxed = "ok" => args.output \in DOMAIN files)

====
